---- MODULE Spec2Model ----
(***************************************************************************)
(* WebSocket connection registries of the MoFox WebUI plugin:              *)
(*   - LiveChatRouter  (backend/router/live_chat_router.py): a dict        *)
(*     stream_id -> set of WebSocket, guarded by an asyncio.Lock;          *)
(*   - RealtimeLogRouter (backend/router/realtime_log_router.py): one set  *)
(*     of WebSocket, guarded by its own asyncio.Lock.                      *)
(*                                                                         *)
(* Everything runs on one asyncio event loop.  A task runs without         *)
(* interruption from one suspension point (an await that really waits) to  *)
(* the next; `running` names the task that currently owns the loop.  The   *)
(* steps a task takes while it owns the loop are separate actions so that  *)
(* the lock is visible while it is held, but no other task can step in     *)
(* between them.                                                           *)
(***************************************************************************)
EXTENDS Naturals, FiniteSets, Sequences, TLC

\* ------------------------------------------------------------------ sets

\* live-chat WebSocket connections (one handler task per connection)
Conns == {"A", "B"}
\* stream ids clients subscribe to
Topics == {"room1", "room2"}
\* tasks of event producers calling LiveChatRouter.broadcast_message
Bcasters == {"b1"}
\* the two producers of the overlapping-broadcast specification (SpecOrder)
RaceBcasters == {"b1", "b2"}
\* the task running LiveChatRouter.shutdown (SpecTeardown)
ChatShutdownTask == "csd"
\* realtime-log WebSocket connections (one handler task per connection)
LogConns == {"L1", "L2"}
\* number of broadcast_log tasks that can be alive at the same time
NumLogBcasters == 2
LogBcasterNames == <<"lb1", "lb2", "lb3", "lb4">>
\* tasks created by LogEventHandler.execute, each running broadcast_log
LogBcasters == {LogBcasterNames[i] : i \in 1..NumLogBcasters}
\* the task running RealtimeLogRouter.shutdown
ShutdownTask == "sd"

NoTask == "none"
NoConn == "noconn"
\* data.get("stream_id") of an object without that key (None)
Missing == "<missing>"
\* the empty string, falsy like None
Empty == ""

ChatTasks == Conns \cup RaceBcasters \cup {ChatShutdownTask}
LogTasks == LogConns \cup LogBcasters \cup {ShutdownTask}
Tasks == ChatTasks \cup LogTasks
AllConns == Conns \cup LogConns
\* tasks that copy a connection set and then loop over the copy
Loopers == RaceBcasters \cup LogBcasters \cup {ShutdownTask}

VARIABLES
    running,              \* task owning the event loop, or NoTask
    pc,                   \* position of every task
    active_connections,   \* LiveChatRouter.active_connections: stream_id -> set
    chat_lock,            \* holder of LiveChatRouter._broadcast_lock, or NoTask
    log_connections,      \* RealtimeLogRouter.active_connections: a set
    log_lock,             \* holder of RealtimeLogRouter._broadcast_lock, or NoTask
    stream_id,            \* local stream_id of a handler or of broadcast_message
    subscribed_streams,   \* live-chat handler local set
    cleanup_todo,         \* live-chat handler: streams its finally loop still has to visit
    connections,          \* local of broadcast_message / broadcast_log / shutdown: the copy
    pending,              \* connections the for loop over the copy still has to visit
    cur_ws,               \* websocket of the send (or close) in progress
    disconnected,         \* local set of broadcast_message / broadcast_log
    sent,                 \* history: what the current call handed to each connection
    snap_subs,            \* history: the registry's set when the current call took its copy
    unsub_done,           \* history: streams whose unsubscribe by the connection has completed,
                          \*          until the connection subscribes to them again
    barred,               \* history: connections with a completed unsubscribe from the call's
                          \*          stream when the call started
    pending_responses,    \* ChatroomAdapter._pending_responses: the asyncio.Queue, oldest first
    message_cache,        \* ChatroomAdapter._message_cache: the dict, in insertion order
    poll_pc,              \* position of a get_pending_responses call
    poll_user,            \* its user_id argument (Missing for None)
    poll_msg,             \* its local msg, between get_nowait and the filter
    responses,            \* its local list `responses`
    cfg_now,              \* datetime.now() in seconds: the timestamp in a backup's name
    cfg_stamp,            \* the latest modification time given to a file
    core_toml,            \* config/core.toml: its content and modification time
    backup_dir,           \* config/backups/core_*.toml: name, content, modification time
    restore_status,       \* the status of the last restore request
    cfg_ops,              \* requests made to the configuration endpoints
    settings_file,        \* the JSON blob webui_settings: key -> value (Missing: no such key)
    set_pc,               \* position of each set_value call on webui_settings
    set_val,              \* its argument value
    set_data,             \* its local dict `data`
    users_file,           \* the JSON blob chatroom_users: user_id -> snapshot (Missing: no user)
    create_pc,            \* position of each POST /users request
    create_user_id,       \* its req.user_id
    create_data,          \* the local dict `data` of its storage.create_user call
    api_keys,             \* get_core_config().http_router.api_keys, and whether it can be read
    conn_key              \* the api_key query parameter of each connection

router_vars == <<running, pc, active_connections, chat_lock, log_connections, log_lock,
                 stream_id, subscribed_streams, cleanup_todo, connections, pending, cur_ws,
                 disconnected, sent, snap_subs, unsub_done, barred>>
\* the local msg of get_pending_responses while it holds no message
NoMsg == [message_id |-> Missing, reply_to |-> Missing]

adapter_vars == <<pending_responses, message_cache, poll_pc, poll_user, poll_msg, responses>>

config_vars == <<cfg_now, cfg_stamp, core_toml, backup_dir, restore_status, cfg_ops>>

storage_vars == <<settings_file, set_pc, set_val, set_data>>
user_vars == <<users_file, create_pc, create_user_id, create_data>>
auth_vars == <<api_keys, conn_key>>

vars == <<router_vars, adapter_vars, config_vars, storage_vars, user_vars, auth_vars>>

\* what the routers, the adapter, the configuration endpoints, the settings
\* storage and the user endpoints leave alone
beside_routers == <<adapter_vars, config_vars, storage_vars, user_vars, auth_vars>>
beside_adapter == <<router_vars, config_vars, storage_vars, user_vars, auth_vars>>
beside_config == <<router_vars, adapter_vars, storage_vars, user_vars, auth_vars>>
beside_storage == <<router_vars, adapter_vars, config_vars, user_vars, auth_vars>>
beside_users == <<router_vars, adapter_vars, config_vars, storage_vars, auth_vars>>

chat_reg == <<active_connections, chat_lock>>
log_reg == <<log_connections, log_lock>>
hvars == <<subscribed_streams, cleanup_todo>>
bvars == <<connections, pending, cur_ws, disconnected>>
ghost == <<sent, snap_subs, unsub_done, barred>>

\* ------------------------------------------------------- inbound messages

NonObjectKinds == {"json_list", "json_number", "json_string", "json_null"}
StreamIdValues == Topics \cup {Empty, Missing}

\* The texts a client can send, by what the read loop and json.loads make of
\* them: <<kind, data.get("type"), data.get("stream_id")>>.
Texts ==
    {<<k, Missing, Missing>> : k \in {"blank", "ping", "invalid_json"} \cup NonObjectKinds}
    \cup {<<"json_object", ty, sid>> : ty \in {"subscribe", "unsubscribe"}, sid \in StreamIdValues}
    \cup {<<"json_object", ty, Missing>> : ty \in {"ping", "other", Missing}}

\* Python truthiness of a stream_id value
Truthy(sid) == sid \notin {Empty, Missing}

\* mutant: no `elif msg_type == "ping"` branch
Dispatch_NoJsonPing(t) ==
    IF t[1] = "blank" THEN "continue"
    ELSE IF t[1] = "ping" THEN "send_text_pong"
    ELSE IF t[1] = "invalid_json" THEN "continue"
    ELSE IF t[1] \in NonObjectKinds THEN "break"
    ELSE IF t[2] = "subscribe" THEN (IF Truthy(t[3]) THEN "subscribe" ELSE "continue")
    ELSE IF t[2] = "unsubscribe" THEN (IF Truthy(t[3]) THEN "unsubscribe" ELSE "continue")
    ELSE "continue"

\* What one pass of the live-chat read loop does with a received text.
\* data.get on a value that is no dict raises AttributeError, which the
\* loop's `except Exception` turns into a break.
Dispatch(t) ==
    IF t[1] = "blank" THEN "continue"
    ELSE IF t[1] = "ping" THEN "send_text_pong"
    ELSE IF t[1] = "invalid_json" THEN "continue"
    ELSE IF t[1] \in NonObjectKinds THEN "break"
    ELSE IF t[2] = "subscribe" THEN (IF Truthy(t[3]) THEN "subscribe" ELSE "continue")
    ELSE IF t[2] = "unsubscribe" THEN (IF Truthy(t[3]) THEN "unsubscribe" ELSE "continue")
    ELSE IF t[2] = "ping" THEN "send_json_pong"
    ELSE "continue"

\* the texts the realtime-log handler tells apart
LogTexts == {"ping", "other"}

\* ------------------------------------------------------- registry bodies

\* mutant: the websocket is toggled in the stream's set (^= instead of add)
SubscribeBody_Toggle(ac, ws, sid) ==
    LET cur == IF sid \in DOMAIN ac THEN ac[sid] ELSE {}
    IN  [t \in DOMAIN ac \cup {sid} |->
            IF t = sid THEN (cur \cup {ws}) \ (cur \cap {ws}) ELSE ac[t]]

\* body of _subscribe_stream under the lock
SubscribeBody(ac, ws, sid) ==
    LET cur == IF sid \in DOMAIN ac THEN ac[sid] ELSE {}
    IN  [t \in DOMAIN ac \cup {sid} |-> IF t = sid THEN cur \cup {ws} ELSE ac[t]]

\* mutant: the stream's key is deleted whether or not the set is empty
UnsubscribeBody_DropsTopic(ac, ws, sid) ==
    IF sid \in DOMAIN ac THEN [t \in DOMAIN ac \ {sid} |-> ac[t]] ELSE ac

\* mutant: the emptied set is left in the dict (no `del`)
UnsubscribeBody_KeepsKey(ac, ws, sid) ==
    IF sid \in DOMAIN ac THEN [ac EXCEPT ![sid] = @ \ {ws}] ELSE ac

\* mutant: the websocket is not discarded from the stream's set
UnsubscribeBody_NoDiscard(ac, ws, sid) == ac

\* body of _unsubscribe_stream under the lock
UnsubscribeBody(ac, ws, sid) ==
    IF sid \in DOMAIN ac
    THEN IF ac[sid] \ {ws} = {}
         THEN [t \in DOMAIN ac \ {sid} |-> ac[t]]
         ELSE [ac EXCEPT ![sid] = @ \ {ws}]
    ELSE ac

\* mutant: `del cls.active_connections[stream_id]` is not under `if not ...`
PruneBody_DeletesKey(ac, sid, dead) ==
    IF sid \in DOMAIN ac
    THEN [exc |-> FALSE, ac |-> [t \in DOMAIN ac \ {sid} |-> ac[t]]]
    ELSE [exc |-> FALSE, ac |-> ac]

\* mutant: the prune block without `if stream_id in cls.active_connections`
PruneBody_NoGuard(ac, sid, dead) ==
    IF sid \in DOMAIN ac
    THEN IF ac[sid] \ dead = {}
         THEN [exc |-> FALSE, ac |-> [t \in DOMAIN ac \ {sid} |-> ac[t]]]
         ELSE [exc |-> FALSE, ac |-> [ac EXCEPT ![sid] = @ \ dead]]
    ELSE [exc |-> TRUE, ac |-> ac]

\* mutant: the failed connections are logged but not removed
PruneBody_NoSubtract(ac, sid, dead) == [exc |-> FALSE, ac |-> ac]

\* body of the prune block of broadcast_message under the lock;
\* exc is TRUE when the block raises
PruneBody(ac, sid, dead) ==
    IF sid \in DOMAIN ac
    THEN IF ac[sid] \ dead = {}
         THEN [exc |-> FALSE, ac |-> [t \in DOMAIN ac \ {sid} |-> ac[t]]]
         ELSE [exc |-> FALSE, ac |-> [ac EXCEPT ![sid] = @ \ dead]]
    ELSE [exc |-> FALSE, ac |-> ac]

\* body of the prune block of broadcast_log: active_connections -= disconnected
LogPruneBody(lc, dead) == lc \ dead

\* mutant: a failed send is tried again
NextPending_Retry(pend, ws, ok) == IF ok THEN pend \ {ws} ELSE pend

\* mutant: the try/except is around the loop, a failed send ends it
NextPending_AbortOnFailure(pend, ws, ok) == IF ok THEN pend \ {ws} ELSE {}

\* the for loop of broadcast_message / broadcast_log after one send: the
\* except clause only records the failure, the loop goes on with the rest
NextPending(pend, ws, ok) == pend \ {ws}

\* the websocket message broadcast_message builds from message_data
WsMessage(sid) == [type |-> "message", data |-> [stream_id |-> sid]]
\* the formatted_log record broadcast_log builds from log_data
LogMessage == [type |-> "log"]
\* the close frame shutdown sends
CloseFrame == [type |-> "close", code |-> 1001]

\* ------------------------------------------------------------------ init

EmptyDict == [t \in {} |-> {}]
NothingSent == [c \in AllConns |-> <<>>]

InitRouters ==
    /\ running = NoTask
    /\ pc = [t \in Tasks |-> IF t \in AllConns THEN "init" ELSE "idle"]
    /\ active_connections = EmptyDict
    /\ chat_lock = NoTask
    /\ log_connections = {}
    /\ log_lock = NoTask
    /\ stream_id = [t \in ChatTasks |-> Missing]
    /\ subscribed_streams = [c \in Conns |-> {}]
    /\ cleanup_todo = [c \in Conns |-> {}]
    /\ connections = [b \in Loopers |-> {}]
    /\ pending = [b \in Loopers |-> {}]
    /\ cur_ws = [b \in Loopers |-> NoConn]
    /\ disconnected = [b \in Loopers |-> {}]
    /\ sent = [b \in Loopers |-> NothingSent]
    /\ snap_subs = [b \in Loopers |-> {}]
    /\ unsub_done = [c \in Conns |-> {}]
    /\ barred = [b \in RaceBcasters |-> {}]

InitAdapter ==
    /\ pending_responses = <<>>
    /\ message_cache = <<>>
    /\ poll_pc = "idle"
    /\ poll_user = Missing
    /\ poll_msg = NoMsg
    /\ responses = <<>>

\* config/core.toml exists, no backup has been made
InitConfig ==
    /\ cfg_now = 1
    /\ cfg_stamp = 0
    /\ core_toml = [content |-> "a", mtime |-> 0]
    /\ backup_dir = {}
    /\ restore_status = Missing
    /\ cfg_ops = 0

\* the keys of webui_settings and the coroutines that write them:
\* complete_initialization, save_git_config, git_env.manager.set_git_path
SettingKeys == {"is_initialized", "git_path"}
Setters == {"complete", "save_git", "manager_git"}
NoSettings == [k \in SettingKeys |-> Missing]

\* no settings file has been written
InitStorage ==
    /\ settings_file = NoSettings
    /\ set_pc = [t \in Setters |-> "idle"]
    /\ set_val = [t \in Setters |-> Missing]
    /\ set_data = [t \in Setters |-> NoSettings]

\* the requests to POST /users and the user ids they carry
Creators == {"p1", "p2", "p3"}
UserIds == {"alice", "bob"}
NoUsers == [u \in UserIds |-> Missing]

InitUsers ==
    /\ users_file = NoUsers
    /\ create_pc = [r \in Creators |-> "idle"]
    /\ create_user_id = [r \in Creators |-> Missing]
    /\ create_data = [r \in Creators |-> NoUsers]

\* every connection carries the configured key
GoodKey == "k1"
InitKeys ==
    /\ api_keys = [readable |-> TRUE, keys |-> {GoodKey}]
    /\ conn_key = [c \in AllConns |-> GoodKey]

InitRest == InitStorage /\ InitUsers /\ InitKeys

Init == InitRouters /\ InitAdapter /\ InitConfig /\ InitRest

\* ------------------------------------------------------ asyncio.Lock

\* mutant: the block is entered without `async with cls._broadcast_lock`
AcquireChat_NoLock(t, from, to) ==
    /\ pc[t] = from
    /\ running \in {t, NoTask}
    /\ running' = t
    /\ pc' = [pc EXCEPT ![t] = to]
    /\ UNCHANGED chat_lock

\* `async with cls._broadcast_lock` of the live-chat router, entered by task
\* t at position `from`: a free lock is taken without suspending and t goes
\* on at `to`; on a held lock t suspends (gives up the loop) and retries
\* when it is resumed.
AcquireChat(t, from, to) ==
    /\ pc[t] = from
    /\ running \in {t, NoTask}
    /\ IF chat_lock = NoTask
       THEN /\ chat_lock' = t
            /\ running' = t
            /\ pc' = [pc EXCEPT ![t] = to]
       ELSE /\ running' = NoTask
            /\ UNCHANGED <<chat_lock, pc>>

\* the same for the realtime-log router's lock
AcquireLog(t, from, to) ==
    /\ pc[t] = from
    /\ running \in {t, NoTask}
    /\ IF log_lock = NoTask
       THEN /\ log_lock' = t
            /\ running' = t
            /\ pc' = [pc EXCEPT ![t] = to]
       ELSE /\ running' = NoTask
            /\ UNCHANGED <<log_lock, pc>>

\* ------------------------------------------------- one router at a time

\* The two routers share no state: each has its own class-level collection
\* and its own lock, and no task of one touches the other's.  The model
\* therefore follows one router at a time: a task of one router starts only
\* while no task of the other has started, so that every behaviour of
\* either router on its own is a behaviour of the model, and the state
\* graph is the sum of the two routers' graphs, not their product.
ChatAtRest == \A t \in ChatTasks : pc[t] \in {"init", "idle"}
LogAtRest == \A t \in LogTasks : pc[t] \in {"init", "idle"}

\* -------------------------------------------------- live-chat handler

\* websocket.accept(); subscribed_streams = set(); first receive_text awaits
HAccept(c) ==
    /\ LogAtRest
    /\ running = NoTask
    /\ pc[c] = "init"
    /\ pc' = [pc EXCEPT ![c] = "recv"]
    /\ UNCHANGED <<running, chat_reg, log_reg, beside_routers, stream_id, hvars, bvars, ghost>>

\* mutant: the handler ends without the finally block's loop
EnterFinally_NoCleanup(c) ==
    /\ pc' = [pc EXCEPT ![c] = "clean_loop"]
    /\ cleanup_todo' = [cleanup_todo EXCEPT ![c] = {}]
    /\ running' = c

\* leaving the read loop: the finally block starts iterating subscribed_streams
EnterFinally(c) ==
    /\ pc' = [pc EXCEPT ![c] = "clean_loop"]
    /\ cleanup_todo' = [cleanup_todo EXCEPT ![c] = subscribed_streams[c]]
    /\ running' = c

\* receive_text returns text t; one pass of the loop body up to its first
\* await (or back to receive_text)
HReceive(c, t) ==
    /\ running = NoTask
    /\ pc[c] = "recv"
    /\ LET d == Dispatch(t) IN
       CASE d = "continue" ->
               UNCHANGED <<pc, running, stream_id, cleanup_todo, unsub_done>>
         [] d \in {"send_text_pong", "send_json_pong"} ->
               /\ pc' = [pc EXCEPT ![c] = d]
               /\ UNCHANGED <<running, stream_id, cleanup_todo, unsub_done>>
         [] d = "break" ->
               /\ EnterFinally(c)
               /\ UNCHANGED <<stream_id, unsub_done>>
         [] d = "subscribe" ->
               /\ pc' = [pc EXCEPT ![c] = "sub_acq"]
               /\ stream_id' = [stream_id EXCEPT ![c] = t[3]]
               /\ unsub_done' = [unsub_done EXCEPT ![c] = @ \ {t[3]}]
               /\ running' = c
               /\ UNCHANGED cleanup_todo
         [] d = "unsubscribe" ->
               /\ pc' = [pc EXCEPT ![c] = "unsub_acq"]
               /\ stream_id' = [stream_id EXCEPT ![c] = t[3]]
               /\ running' = c
               /\ UNCHANGED <<cleanup_todo, unsub_done>>
    /\ UNCHANGED <<chat_reg, log_reg, beside_routers, subscribed_streams, bvars, sent, snap_subs, barred>>

\* receive_text raises WebSocketDisconnect or another exception: break
HDisconnect(c) ==
    /\ running = NoTask
    /\ pc[c] = "recv"
    /\ EnterFinally(c)
    /\ UNCHANGED <<chat_reg, log_reg, beside_routers, stream_id, subscribed_streams, bvars, ghost>>

\* async with self._broadcast_lock in _subscribe_stream / _unsubscribe_stream
HAcquire(c) ==
    /\ \/ AcquireChat(c, "sub_acq", "sub_cs")
       \/ AcquireChat(c, "unsub_acq", "unsub_cs")
       \/ AcquireChat(c, "clean_acq", "clean_cs")
    /\ UNCHANGED <<active_connections, log_reg, beside_routers, stream_id, hvars, bvars, ghost>>

\* mutant: the acknowledgement is sent without the websocket having been
\* added to the stream's set
HSubscribe_AckFirst(c) ==
    /\ running = c
    /\ pc[c] = "sub_cs"
    /\ chat_lock' = NoTask
    /\ subscribed_streams' = [subscribed_streams EXCEPT ![c] = @ \cup {stream_id[c]}]
    /\ pc' = [pc EXCEPT ![c] = "send_subscribed"]
    /\ running' = NoTask
    /\ UNCHANGED <<active_connections, log_reg, beside_routers, stream_id, cleanup_todo, bvars, ghost>>

\* mutant: the handler does not record the stream in subscribed_streams
HSubscribe_NoLocalAdd(c) ==
    /\ running = c
    /\ pc[c] = "sub_cs"
    /\ active_connections' = SubscribeBody(active_connections, c, stream_id[c])
    /\ chat_lock' = NoTask
    /\ pc' = [pc EXCEPT ![c] = "send_subscribed"]
    /\ running' = NoTask
    /\ UNCHANGED <<log_reg, beside_routers, stream_id, hvars, bvars, ghost>>

\* _subscribe_stream under the lock, then subscribed_streams.add(stream_id)
\* and the await of send_json({"type": "subscribed", ...})
HSubscribe(c) ==
    /\ running = c
    /\ pc[c] = "sub_cs"
    /\ active_connections' = SubscribeBody(active_connections, c, stream_id[c])
    /\ chat_lock' = NoTask
    /\ subscribed_streams' = [subscribed_streams EXCEPT ![c] = @ \cup {stream_id[c]}]
    /\ pc' = [pc EXCEPT ![c] = "send_subscribed"]
    /\ running' = NoTask
    /\ UNCHANGED <<log_reg, beside_routers, stream_id, cleanup_todo, bvars, ghost>>

\* _unsubscribe_stream under the lock, then subscribed_streams.discard and
\* back to receive_text
HUnsubscribe(c) ==
    /\ running = c
    /\ pc[c] = "unsub_cs"
    /\ active_connections' = UnsubscribeBody(active_connections, c, stream_id[c])
    /\ chat_lock' = NoTask
    /\ subscribed_streams' = [subscribed_streams EXCEPT ![c] = @ \ {stream_id[c]}]
    /\ unsub_done' = [unsub_done EXCEPT ![c] = @ \cup {stream_id[c]}]
    /\ stream_id' = [stream_id EXCEPT ![c] = Missing]
    /\ pc' = [pc EXCEPT ![c] = "recv"]
    /\ running' = NoTask
    /\ UNCHANGED <<log_reg, beside_routers, cleanup_todo, bvars, sent, snap_subs, barred>>

\* a reply send (pong, subscribed) completes; a failure leaves the read loop
HReplyDone(c, ok) ==
    /\ running = NoTask
    /\ pc[c] \in {"send_text_pong", "send_json_pong", "send_subscribed"}
    /\ IF ok
       THEN /\ pc' = [pc EXCEPT ![c] = "recv"]
            /\ UNCHANGED <<running, cleanup_todo>>
       ELSE EnterFinally(c)
    /\ stream_id' = [stream_id EXCEPT ![c] = Missing]
    /\ UNCHANGED <<chat_reg, log_reg, beside_routers, subscribed_streams, bvars, ghost>>

\* finally: next stream of the loop over subscribed_streams
HCleanupNext(c, sid) ==
    /\ running = c
    /\ pc[c] = "clean_loop"
    /\ sid \in cleanup_todo[c]
    /\ cleanup_todo' = [cleanup_todo EXCEPT ![c] = @ \ {sid}]
    /\ stream_id' = [stream_id EXCEPT ![c] = sid]
    /\ pc' = [pc EXCEPT ![c] = "clean_acq"]
    /\ UNCHANGED <<running, chat_reg, log_reg, beside_routers, subscribed_streams, bvars, ghost>>

\* finally: _unsubscribe_stream under the lock
HCleanupUnsubscribe(c) ==
    /\ running = c
    /\ pc[c] = "clean_cs"
    /\ active_connections' = UnsubscribeBody(active_connections, c, stream_id[c])
    /\ chat_lock' = NoTask
    /\ unsub_done' = [unsub_done EXCEPT ![c] = @ \cup {stream_id[c]}]
    /\ stream_id' = [stream_id EXCEPT ![c] = Missing]
    /\ pc' = [pc EXCEPT ![c] = "clean_loop"]
    /\ UNCHANGED <<running, log_reg, beside_routers, hvars, bvars, sent, snap_subs, barred>>

\* finally: loop exhausted, the handler returns
HCleanupEnd(c) ==
    /\ running = c
    /\ pc[c] = "clean_loop"
    /\ cleanup_todo[c] = {}
    /\ pc' = [pc EXCEPT ![c] = "done"]
    /\ running' = NoTask
    /\ UNCHANGED <<chat_reg, log_reg, beside_routers, stream_id, hvars, bvars, ghost>>

HandlerStep(c) ==
    \/ HAccept(c)
    \/ \E t \in Texts : HReceive(c, t)
    \/ HDisconnect(c)
    \/ HAcquire(c)
    \/ HSubscribe(c)
    \/ HUnsubscribe(c)
    \/ \E ok \in BOOLEAN : HReplyDone(c, ok)
    \/ \E sid \in Topics : HCleanupNext(c, sid)
    \/ HCleanupUnsubscribe(c)
    \/ HCleanupEnd(c)

\* ------------------------------------------- LiveChatRouter.broadcast_message

\* the locals of a finished call are dropped
ResetCall(b) ==
    /\ connections' = [connections EXCEPT ![b] = {}]
    /\ pending' = [pending EXCEPT ![b] = {}]
    /\ cur_ws' = [cur_ws EXCEPT ![b] = NoConn]
    /\ disconnected' = [disconnected EXCEPT ![b] = {}]
    /\ sent' = [sent EXCEPT ![b] = NothingSent]
    /\ snap_subs' = [snap_subs EXCEPT ![b] = {}]

\* mutant: no `if stream_id not in cls.active_connections: return`
BCall_NoKeyCheck(b, sid) ==
    /\ LogAtRest
    /\ running = NoTask
    /\ pc[b] = "idle"
    /\ running' = b
    /\ stream_id' = [stream_id EXCEPT ![b] = sid]
    /\ pc' = [pc EXCEPT ![b] = IF ~Truthy(sid) THEN "ret" ELSE "b_acq"]
    /\ barred' = [barred EXCEPT ![b] = {c \in Conns : sid \in unsub_done[c]}]
    /\ UNCHANGED <<chat_reg, log_reg, beside_routers, hvars, bvars, sent, snap_subs, unsub_done>>

\* mutant: the call suspends (an await that yields) before it takes the lock
BCall_YieldsBeforeLock(b, sid) ==
    /\ LogAtRest
    /\ running = NoTask
    /\ pc[b] = "idle"
    /\ stream_id' = [stream_id EXCEPT ![b] = sid]
    /\ IF ~Truthy(sid) \/ sid \notin DOMAIN active_connections
       THEN /\ pc' = [pc EXCEPT ![b] = "ret"]
            /\ running' = b
       ELSE /\ pc' = [pc EXCEPT ![b] = "b_acq"]
            /\ running' = NoTask
    /\ barred' = [barred EXCEPT ![b] = {c \in Conns : sid \in unsub_done[c]}]
    /\ UNCHANGED <<chat_reg, log_reg, beside_routers, hvars, bvars, sent, snap_subs, unsub_done>>

\* an event producer calls broadcast_message(message_data); sid is
\* message_data.get("stream_id").  The two early returns are taken here.
BCall(b, sid) ==
    /\ LogAtRest
    /\ running = NoTask
    /\ pc[b] = "idle"
    /\ running' = b
    /\ stream_id' = [stream_id EXCEPT ![b] = sid]
    /\ pc' = [pc EXCEPT ![b] =
                IF ~Truthy(sid) THEN "ret"
                ELSE IF sid \notin DOMAIN active_connections THEN "ret"
                ELSE "b_acq"]
    /\ barred' = [barred EXCEPT ![b] = {c \in Conns : sid \in unsub_done[c]}]
    /\ UNCHANGED <<chat_reg, log_reg, beside_routers, hvars, bvars, sent, snap_subs, unsub_done>>

\* async with cls._broadcast_lock (copy block and prune block)
BAcquire(b) ==
    /\ \/ AcquireChat(b, "b_acq", "b_cs")
       \/ AcquireChat(b, "p_acq", "p_cs")
    /\ UNCHANGED <<active_connections, log_reg, beside_routers, stream_id, hvars, bvars, ghost>>

\* mutant: the for loop is inside the `async with` block, the lock stays held
BCopy_SendsUnderLock(b) ==
    /\ running = b
    /\ pc[b] = "b_cs"
    /\ stream_id[b] \in DOMAIN active_connections
    /\ connections' = [connections EXCEPT ![b] = active_connections[stream_id[b]]]
    /\ pending' = [pending EXCEPT ![b] = active_connections[stream_id[b]]]
    /\ snap_subs' = [snap_subs EXCEPT ![b] = active_connections[stream_id[b]]]
    /\ pc' = [pc EXCEPT ![b] = "b_loop"]
    /\ UNCHANGED <<running, chat_reg, log_reg, beside_routers, stream_id, hvars, cur_ws, disconnected,
                   sent, unsub_done, barred>>

\* connections = cls.active_connections[stream_id].copy() under the lock,
\* then disconnected = set() and the for loop starts.  A missing key is a
\* KeyError that leaves the with block (releasing the lock) and the call.
BCopy(b) ==
    /\ running = b
    /\ pc[b] = "b_cs"
    /\ chat_lock' = NoTask
    /\ IF stream_id[b] \in DOMAIN active_connections
       THEN /\ connections' = [connections EXCEPT ![b] = active_connections[stream_id[b]]]
            /\ pending' = [pending EXCEPT ![b] = active_connections[stream_id[b]]]
            /\ snap_subs' = [snap_subs EXCEPT ![b] = active_connections[stream_id[b]]]
            /\ pc' = [pc EXCEPT ![b] = "b_loop"]
            /\ UNCHANGED running
       ELSE /\ pc' = [pc EXCEPT ![b] = "raised"]
            /\ running' = NoTask
            /\ UNCHANGED <<connections, pending, snap_subs>>
    /\ UNCHANGED <<active_connections, log_reg, beside_routers, stream_id, hvars, cur_ws, disconnected,
                   sent, unsub_done, barred>>

\* for websocket in connections: await websocket.send_json(ws_message)
BSend(b, ws) ==
    /\ running = b
    /\ pc[b] = "b_loop"
    /\ ws \in pending[b]
    /\ cur_ws' = [cur_ws EXCEPT ![b] = ws]
    /\ sent' = [sent EXCEPT ![b][ws] = Append(@, WsMessage(stream_id[b]))]
    /\ pc' = [pc EXCEPT ![b] = "b_send"]
    /\ running' = NoTask
    /\ UNCHANGED <<chat_reg, log_reg, beside_routers, stream_id, hvars, connections, pending,
                   disconnected, snap_subs, unsub_done, barred>>

\* the send returns (ok) or raises (caught: disconnected.add(websocket))
BSendDone(b, ok) ==
    /\ running = NoTask
    /\ pc[b] = "b_send"
    /\ running' = b
    /\ disconnected' = [disconnected EXCEPT ![b] = IF ok THEN @ ELSE @ \cup {cur_ws[b]}]
    /\ pending' = [pending EXCEPT ![b] = NextPending(@, cur_ws[b], ok)]
    /\ cur_ws' = [cur_ws EXCEPT ![b] = NoConn]
    /\ pc' = [pc EXCEPT ![b] = "b_loop"]
    /\ UNCHANGED <<chat_reg, log_reg, beside_routers, stream_id, hvars, connections, ghost>>

\* the for loop is exhausted: if disconnected: ... else return
BLoopEnd(b) ==
    /\ running = b
    /\ pc[b] = "b_loop"
    /\ pending[b] = {}
    /\ pc' = [pc EXCEPT ![b] = IF disconnected[b] # {} THEN "p_acq" ELSE "ret"]
    /\ UNCHANGED <<running, chat_reg, log_reg, beside_routers, stream_id, hvars, bvars, ghost>>

\* the prune block under the lock; the call is then about to return
BPrune(b) ==
    /\ running = b
    /\ pc[b] = "p_cs"
    /\ chat_lock' = NoTask
    /\ LET r == PruneBody(active_connections, stream_id[b], disconnected[b]) IN
       IF r.exc
       THEN /\ pc' = [pc EXCEPT ![b] = "raised"]
            /\ running' = NoTask
            /\ UNCHANGED active_connections
       ELSE /\ active_connections' = r.ac
            /\ pc' = [pc EXCEPT ![b] = "ret"]
            /\ UNCHANGED running
    /\ UNCHANGED <<log_reg, beside_routers, stream_id, hvars, bvars, ghost>>

\* broadcast_message returns None to its caller
BReturn(b) ==
    /\ running = b
    /\ pc[b] = "ret"
    /\ pc' = [pc EXCEPT ![b] = "idle"]
    /\ running' = NoTask
    /\ stream_id' = [stream_id EXCEPT ![b] = Missing]
    /\ ResetCall(b)
    /\ barred' = [barred EXCEPT ![b] = {}]
    /\ UNCHANGED <<chat_reg, log_reg, beside_routers, hvars, unsub_done>>

BroadcastStep(b) ==
    \/ \E sid \in Topics \cup {Empty, Missing} : BCall(b, sid)
    \/ BAcquire(b)
    \/ BCopy(b)
    \/ \E ws \in Conns : BSend(b, ws)
    \/ \E ok \in BOOLEAN : BSendDone(b, ok)
    \/ BLoopEnd(b)
    \/ BPrune(b)
    \/ BReturn(b)

NextChat ==
    \/ \E c \in Conns : HandlerStep(c)
    \/ \E b \in Bcasters : BroadcastStep(b)

\* --------------------------------------------- realtime-log handler

chat_all == <<chat_reg, stream_id, hvars, unsub_done, barred, beside_routers>>

\* websocket.accept() has completed; the handler goes on to add itself
LAccept(l) ==
    /\ ChatAtRest
    /\ running = NoTask
    /\ pc[l] = "init"
    /\ pc' = [pc EXCEPT ![l] = "add_acq"]
    /\ running' = l
    /\ UNCHANGED <<chat_all, log_reg, bvars, sent, snap_subs>>

\* async with self._broadcast_lock in the handler (add and finally)
LAcquire(l) ==
    /\ \/ AcquireLog(l, "add_acq", "add_cs")
       \/ AcquireLog(l, "rm_acq", "rm_cs")
    /\ UNCHANGED <<chat_all, log_connections, bvars, sent, snap_subs>>

\* self.active_connections.add(websocket) under the lock; receive_text awaits
LAdd(l) ==
    /\ running = l
    /\ pc[l] = "add_cs"
    /\ log_connections' = log_connections \cup {l}
    /\ log_lock' = NoTask
    /\ pc' = [pc EXCEPT ![l] = "recv"]
    /\ running' = NoTask
    /\ UNCHANGED <<chat_all, bvars, sent, snap_subs>>

\* receive_text returns data: "ping" is answered, anything else is dropped
LReceive(l, data) ==
    /\ running = NoTask
    /\ pc[l] = "recv"
    /\ pc' = [pc EXCEPT ![l] = IF data = "ping" THEN "send_text_pong" ELSE "recv"]
    /\ UNCHANGED <<running, chat_all, log_reg, bvars, sent, snap_subs>>

\* send_text("pong") completes; a failure leaves the read loop
LReplyDone(l, ok) ==
    /\ running = NoTask
    /\ pc[l] = "send_text_pong"
    /\ IF ok
       THEN /\ pc' = [pc EXCEPT ![l] = "recv"]
            /\ UNCHANGED running
       ELSE /\ pc' = [pc EXCEPT ![l] = "rm_acq"]
            /\ running' = l
    /\ UNCHANGED <<chat_all, log_reg, bvars, sent, snap_subs>>

\* receive_text raises WebSocketDisconnect or another exception: break
LDisconnect(l) ==
    /\ running = NoTask
    /\ pc[l] = "recv"
    /\ pc' = [pc EXCEPT ![l] = "rm_acq"]
    /\ running' = l
    /\ UNCHANGED <<chat_all, log_reg, bvars, sent, snap_subs>>

\* finally: self.active_connections.discard(websocket) under the lock
LRemove(l) ==
    /\ running = l
    /\ pc[l] = "rm_cs"
    /\ log_connections' = log_connections \ {l}
    /\ log_lock' = NoTask
    /\ pc' = [pc EXCEPT ![l] = "done"]
    /\ running' = NoTask
    /\ UNCHANGED <<chat_all, bvars, sent, snap_subs>>

LogHandlerStep(l) ==
    \/ LAccept(l)
    \/ LAcquire(l)
    \/ LAdd(l)
    \/ \E data \in LogTexts : LReceive(l, data)
    \/ \E ok \in BOOLEAN : LReplyDone(l, ok)
    \/ LDisconnect(l)
    \/ LRemove(l)

\* ------------------------------------------- RealtimeLogRouter.broadcast_log

\* a task created by LogEventHandler.execute starts broadcast_log(log_data);
\* `if not cls.active_connections: return`
LBCall(b) ==
    /\ ChatAtRest
    /\ running = NoTask
    /\ pc[b] = "idle"
    /\ running' = b
    /\ pc' = [pc EXCEPT ![b] = IF log_connections = {} THEN "ret" ELSE "b_acq"]
    /\ UNCHANGED <<chat_all, log_reg, bvars, sent, snap_subs>>

\* async with cls._broadcast_lock (copy block and prune block)
LBAcquire(b) ==
    /\ \/ AcquireLog(b, "b_acq", "b_cs")
       \/ AcquireLog(b, "p_acq", "p_cs")
    /\ UNCHANGED <<chat_all, log_connections, bvars, sent, snap_subs>>

\* connections = cls.active_connections.copy() under the lock, then
\* disconnected = set() and the for loop starts
LBCopy(b) ==
    /\ running = b
    /\ pc[b] = "b_cs"
    /\ log_lock' = NoTask
    /\ connections' = [connections EXCEPT ![b] = log_connections]
    /\ pending' = [pending EXCEPT ![b] = log_connections]
    /\ snap_subs' = [snap_subs EXCEPT ![b] = log_connections]
    /\ pc' = [pc EXCEPT ![b] = "b_loop"]
    /\ UNCHANGED <<running, chat_all, log_connections, cur_ws, disconnected, sent>>

\* for websocket in connections: await websocket.send_json(formatted_log)
LBSend(b, ws) ==
    /\ running = b
    /\ pc[b] = "b_loop"
    /\ ws \in pending[b]
    /\ cur_ws' = [cur_ws EXCEPT ![b] = ws]
    /\ sent' = [sent EXCEPT ![b][ws] = Append(@, LogMessage)]
    /\ pc' = [pc EXCEPT ![b] = "b_send"]
    /\ running' = NoTask
    /\ UNCHANGED <<chat_all, log_reg, connections, pending, disconnected, snap_subs>>

\* the send returns (ok) or raises (caught: disconnected.add(websocket))
LBSendDone(b, ok) ==
    /\ running = NoTask
    /\ pc[b] = "b_send"
    /\ running' = b
    /\ disconnected' = [disconnected EXCEPT ![b] = IF ok THEN @ ELSE @ \cup {cur_ws[b]}]
    /\ pending' = [pending EXCEPT ![b] = NextPending(@, cur_ws[b], ok)]
    /\ cur_ws' = [cur_ws EXCEPT ![b] = NoConn]
    /\ pc' = [pc EXCEPT ![b] = "b_loop"]
    /\ UNCHANGED <<chat_all, log_reg, connections, sent, snap_subs>>

\* the for loop is exhausted: if disconnected: ... else return
LBLoopEnd(b) ==
    /\ running = b
    /\ pc[b] = "b_loop"
    /\ pending[b] = {}
    /\ pc' = [pc EXCEPT ![b] = IF disconnected[b] # {} THEN "p_acq" ELSE "ret"]
    /\ UNCHANGED <<running, chat_all, log_reg, bvars, sent, snap_subs>>

\* cls.active_connections -= disconnected under the lock
LBPrune(b) ==
    /\ running = b
    /\ pc[b] = "p_cs"
    /\ log_connections' = LogPruneBody(log_connections, disconnected[b])
    /\ log_lock' = NoTask
    /\ pc' = [pc EXCEPT ![b] = "ret"]
    /\ UNCHANGED <<running, chat_all, bvars, sent, snap_subs>>

\* broadcast_log returns None; the task ends
LBReturn(b) ==
    /\ running = b
    /\ pc[b] = "ret"
    /\ pc' = [pc EXCEPT ![b] = "idle"]
    /\ running' = NoTask
    /\ ResetCall(b)
    /\ UNCHANGED <<chat_all, log_reg>>

LogBroadcastStep(b) ==
    \/ LBCall(b)
    \/ LBAcquire(b)
    \/ LBCopy(b)
    \/ \E ws \in LogConns : LBSend(b, ws)
    \/ \E ok \in BOOLEAN : LBSendDone(b, ok)
    \/ LBLoopEnd(b)
    \/ LBPrune(b)
    \/ LBReturn(b)

\* ------------------------------------------- RealtimeLogRouter.shutdown

\* the router's shutdown hook is called
SCall ==
    /\ ChatAtRest
    /\ running = NoTask
    /\ pc[ShutdownTask] = "idle"
    /\ pc' = [pc EXCEPT ![ShutdownTask] = "s_acq"]
    /\ running' = ShutdownTask
    /\ UNCHANGED <<chat_all, log_reg, bvars, sent, snap_subs>>

\* async with self._broadcast_lock
SAcquire ==
    /\ AcquireLog(ShutdownTask, "s_acq", "s_cs")
    /\ UNCHANGED <<chat_all, log_connections, bvars, sent, snap_subs>>

\* connections = copy(); clear() under the lock; the close loop starts
SClear ==
    /\ running = ShutdownTask
    /\ pc[ShutdownTask] = "s_cs"
    /\ connections' = [connections EXCEPT ![ShutdownTask] = log_connections]
    /\ pending' = [pending EXCEPT ![ShutdownTask] = log_connections]
    /\ snap_subs' = [snap_subs EXCEPT ![ShutdownTask] = log_connections]
    /\ log_connections' = {}
    /\ log_lock' = NoTask
    /\ pc' = [pc EXCEPT ![ShutdownTask] = "s_loop"]
    /\ UNCHANGED <<running, chat_all, cur_ws, disconnected, sent>>

\* for websocket in connections: await websocket.close(code=1001, ...)
SClose(ws) ==
    /\ running = ShutdownTask
    /\ pc[ShutdownTask] = "s_loop"
    /\ ws \in pending[ShutdownTask]
    /\ cur_ws' = [cur_ws EXCEPT ![ShutdownTask] = ws]
    /\ sent' = [sent EXCEPT ![ShutdownTask][ws] = Append(@, CloseFrame)]
    /\ pc' = [pc EXCEPT ![ShutdownTask] = "s_close"]
    /\ running' = NoTask
    /\ UNCHANGED <<chat_all, log_reg, connections, pending, disconnected, snap_subs>>

\* mutant: the try/except is around the loop, a failed close ends it
SCloseDone_AbortOnError(ok) ==
    /\ running = NoTask
    /\ pc[ShutdownTask] = "s_close"
    /\ running' = ShutdownTask
    /\ pending' = [pending EXCEPT ![ShutdownTask] =
                      IF ok THEN @ \ {cur_ws[ShutdownTask]} ELSE {}]
    /\ cur_ws' = [cur_ws EXCEPT ![ShutdownTask] = NoConn]
    /\ pc' = [pc EXCEPT ![ShutdownTask] = "s_loop"]
    /\ UNCHANGED <<chat_all, log_reg, connections, disconnected, sent, snap_subs>>

\* the close returns or raises (except Exception: pass)
SCloseDone(ok) ==
    /\ running = NoTask
    /\ pc[ShutdownTask] = "s_close"
    /\ running' = ShutdownTask
    /\ pending' = [pending EXCEPT ![ShutdownTask] = @ \ {cur_ws[ShutdownTask]}]
    /\ cur_ws' = [cur_ws EXCEPT ![ShutdownTask] = NoConn]
    /\ pc' = [pc EXCEPT ![ShutdownTask] = "s_loop"]
    /\ UNCHANGED <<chat_all, log_reg, connections, disconnected, sent, snap_subs>>

\* the close loop is exhausted: shutdown returns
SReturn ==
    /\ running = ShutdownTask
    /\ pc[ShutdownTask] = "s_loop"
    /\ pending[ShutdownTask] = {}
    /\ pc' = [pc EXCEPT ![ShutdownTask] = "done"]
    /\ running' = NoTask
    /\ UNCHANGED <<chat_all, log_reg, bvars, sent, snap_subs>>

ShutdownStep ==
    \/ SCall
    \/ SAcquire
    \/ SClear
    \/ \E ws \in LogConns : SClose(ws)
    \/ \E ok \in BOOLEAN : SCloseDone(ok)
    \/ SReturn

NextLog ==
    \/ \E l \in LogConns : LogHandlerStep(l)
    \/ \E b \in LogBcasters : LogBroadcastStep(b)
    \/ ShutdownStep

\* ------------------------------------------------------ specification

Next == NextChat \/ NextLog

Spec == Init /\ [][Next]_vars

\* ------------------------------------------------- event producers

\* LiveChatEventHandler.execute awaits self._broadcast_message, which awaits
\* LiveChatRouter.broadcast_message: the coroutine b of the event producer is
\* inside execute from the call of broadcast_message until its return.
\* (LogEventHandler.execute only creates the task that runs broadcast_log and
\* returns; the tasks of LogBcasters run after it.)
ExecuteReturned(b) == pc[b] = "idle"

\* --------------------------------------------- overlapping broadcasts
\*
\* SpecOrder follows two calls of broadcast_message for the same stream, and
\* the broadcast_log tasks, where a later call starts while the earlier ones
\* are still suspended in a send.  The calls are told apart by their order:
\* a task of lower rank is always the one that was called earlier.

RaceTopic == "room1"
RaceFirst == "b1"
RaceSecond == "b2"

\* the clients of SpecOrder only subscribe to the stream (and disconnect)
RaceTexts == {<<"json_object", "subscribe", RaceTopic>>}

\* rank of a broadcast_log task: LogEventHandler.execute creates the tasks in
\* this order and the event loop starts them in the order of their creation
LogRank(b) == CHOOSE i \in 1..NumLogBcasters : LogBcasterNames[i] = b

\* the first producer calls when no call is in progress, the second one
\* while the first call is in progress
RaceCall(b) ==
    /\ IF b = RaceFirst THEN pc[RaceSecond] = "idle" ELSE pc[RaceFirst] # "idle"
    /\ BCall(b, RaceTopic)

\* async with self._broadcast_lock in _subscribe_stream and in the cleanup
RaceHAcquire(c) ==
    /\ \/ AcquireChat(c, "sub_acq", "sub_cs")
       \/ AcquireChat(c, "clean_acq", "clean_cs")
    /\ UNCHANGED <<active_connections, log_reg, beside_routers, stream_id, hvars, bvars, ghost>>

RaceHandlerStep(c) ==
    \/ HAccept(c)
    \/ \E t \in RaceTexts : HReceive(c, t)
    \/ HDisconnect(c)
    \/ RaceHAcquire(c)
    \/ HSubscribe(c)
    \/ \E ok \in BOOLEAN : HReplyDone(c, ok)
    \/ \E sid \in Topics : HCleanupNext(c, sid)
    \/ HCleanupUnsubscribe(c)
    \/ HCleanupEnd(c)

RaceBroadcastStep(b) ==
    \/ RaceCall(b)
    \/ BAcquire(b)
    \/ BCopy(b)
    \/ \E ws \in Conns : BSend(b, ws)
    \/ \E ok \in BOOLEAN : BSendDone(b, ok)
    \/ BLoopEnd(b)
    \/ BPrune(b)
    \/ BReturn(b)

\* the task of rank 1 starts when no broadcast_log task is running, a task
\* of higher rank while the task created just before it is still running and
\* no task of higher rank is: the tasks in progress were created in the order
\* of their ranks
RaceLogCall(b) ==
    /\ IF LogRank(b) = 1
       THEN \A o \in LogBcasters : pc[o] = "idle"
       ELSE /\ pc[LogBcasterNames[LogRank(b) - 1]] # "idle"
            /\ \A o \in LogBcasters : LogRank(o) > LogRank(b) => pc[o] = "idle"
    /\ LBCall(b)

RaceLogBroadcastStep(b) ==
    \/ RaceLogCall(b)
    \/ LBAcquire(b)
    \/ LBCopy(b)
    \/ \E ws \in LogConns : LBSend(b, ws)
    \/ \E ok \in BOOLEAN : LBSendDone(b, ok)
    \/ LBLoopEnd(b)
    \/ LBPrune(b)
    \/ LBReturn(b)

NextOrder ==
    \/ \E c \in Conns : RaceHandlerStep(c)
    \/ \E b \in RaceBcasters : RaceBroadcastStep(b)
    \/ \E l \in LogConns : LogHandlerStep(l)
    \/ \E b \in LogBcasters : RaceLogBroadcastStep(b)

SpecOrder == Init /\ [][NextOrder]_vars

\* --------------------------------------------- LiveChatRouter.shutdown
\*
\* SpecTeardown follows the live-chat handlers and the router's shutdown hook.

\* shutdown(): logger.info(...) and nothing else; the hook has no await
ChatShutdown ==
    /\ running = NoTask
    /\ pc[ChatShutdownTask] = "idle"
    /\ pc' = [pc EXCEPT ![ChatShutdownTask] = "done"]
    /\ UNCHANGED <<running, chat_reg, log_reg, beside_routers, stream_id, hvars, bvars, ghost>>

NextTeardown ==
    \/ \E c \in Conns : HandlerStep(c)
    \/ ChatShutdown

SpecTeardown == Init /\ [][NextTeardown]_vars

\* ------------------------------------------------------ API key check
\*
\* SpecAuth follows connections that carry any api_key, under any key
\* configuration, through the check both websocket endpoints make before
\* websocket.accept().

BadKey == "k0"
KeyConfigs ==
    {[readable |-> r, keys |-> k] : r \in BOOLEAN, k \in {{}, {GoodKey}}}

InitAnyKeys ==
    /\ api_keys \in KeyConfigs
    /\ conn_key \in [AllConns -> {GoodKey, BadKey}]

\* mutant: an empty key list switches the check off
KeyAccepted_EmptyListOpen(c) ==
    /\ api_keys.readable
    /\ api_keys.keys = {} \/ conn_key[c] \in api_keys.keys

\* the check passes: get_core_config() did not raise, and not
\* (`not valid_keys or api_key not in valid_keys`)
KeyAccepted(c) ==
    /\ api_keys.readable
    /\ api_keys.keys # {}
    /\ conn_key[c] \in api_keys.keys

\* websocket.close(code=4003 / 4001) and return (or the exception of the
\* configuration read leaves the endpoint): the connection is not accepted
Reject(c) ==
    /\ running = NoTask
    /\ pc[c] = "init"
    /\ ~KeyAccepted(c)
    /\ pc' = [pc EXCEPT ![c] = "rejected"]
    /\ UNCHANGED <<running, chat_reg, log_reg, beside_routers, stream_id, hvars, bvars, ghost>>

\* the check, then websocket.accept()
HCheckedAccept(c) == KeyAccepted(c) /\ HAccept(c)
LCheckedAccept(l) == KeyAccepted(l) /\ LAccept(l)

AuthHandlerStep(c) ==
    \/ HCheckedAccept(c)
    \/ Reject(c)
    \/ \E t \in RaceTexts : HReceive(c, t)
    \/ HDisconnect(c)
    \/ RaceHAcquire(c)
    \/ HSubscribe(c)
    \/ \E ok \in BOOLEAN : HReplyDone(c, ok)
    \/ \E sid \in Topics : HCleanupNext(c, sid)
    \/ HCleanupUnsubscribe(c)
    \/ HCleanupEnd(c)

AuthLogHandlerStep(l) ==
    \/ LCheckedAccept(l)
    \/ Reject(l)
    \/ LAcquire(l)
    \/ LAdd(l)
    \/ \E data \in LogTexts : LReceive(l, data)
    \/ \E ok \in BOOLEAN : LReplyDone(l, ok)
    \/ LDisconnect(l)
    \/ LRemove(l)

NextAuth ==
    \/ \E c \in Conns : AuthHandlerStep(c)
    \/ RaceBroadcastStep(RaceFirst)
    \/ \E l \in LogConns : AuthLogHandlerStep(l)
    \/ LogBroadcastStep(LogBcasterNames[1])

InitAuth ==
    InitRouters /\ InitAdapter /\ InitConfig /\ InitStorage /\ InitUsers /\ InitAnyKeys

SpecAuth == InitAuth /\ [][NextAuth]_vars

\* --------------------------------------------------- ChatroomAdapter
\*
\* SpecAdapter follows the chatroom adapter: messages of WebUI users are
\* cached, bot replies are cached and queued, and GET /poll drains the queue
\* through get_pending_responses.

\* chatroom users, ids of their messages, ids of bot replies
Users == {"u1", "u2"}
MsgIds == {"m1", "m2"}
ReplyIds == {"r1", "r2"}
BotUser == "mofox_bot"

\* replies the model lets wait in the queue at the same time
MaxQueue == 2
\* self._cache_max_size
CacheMaxSize == 1000

\* message_id in self._message_cache
CacheHas(cache, id) == \E i \in 1..Len(cache) : cache[i].message_id = id

\* self._message_cache.get(message_id), for a message_id that is cached
CacheGet(cache, id) ==
    cache[CHOOSE i \in 1..Len(cache) : cache[i].message_id = id]

\* _cache_message: the dict entry is set (a key already present keeps its
\* place), then the oldest entry is deleted if the dict has grown too large
CacheMessage(cache, id, user) ==
    LET entry == [message_id |-> id, user_id |-> user]
        put == IF CacheHas(cache, id)
               THEN [i \in 1..Len(cache) |->
                        IF cache[i].message_id = id THEN entry ELSE cache[i]]
               ELSE Append(cache, entry)
    IN  IF Len(put) > CacheMaxSize THEN Tail(put) ELSE put

\* the filter of get_pending_responses: msg is put back into the queue
OtherUsers(msg, uid, cache) ==
    /\ uid # Missing
    /\ msg.reply_to # Missing
    /\ CacheHas(cache, msg.reply_to)
    /\ CacheGet(cache, msg.reply_to).user_id # uid

\* get_pending_responses has no await that suspends (put on an unbounded
\* queue returns at once): no other coroutine runs during a call
AdapterFree == poll_pc = "idle"

\* send_message / from_platform_message: the user's message is cached
SendMessage(u, id) ==
    /\ AdapterFree
    /\ message_cache' = CacheMessage(message_cache, id, u)
    /\ UNCHANGED <<beside_adapter, pending_responses, poll_pc, poll_user, poll_msg, responses>>

\* _send_platform_message: the bot's reply to the message reply_to (None when
\* the envelope carries no raw message) is cached and put into the queue
SendPlatformMessage(id, reply_to) ==
    /\ AdapterFree
    /\ Len(pending_responses) < MaxQueue
    /\ message_cache' = CacheMessage(message_cache, id, BotUser)
    /\ pending_responses' = Append(pending_responses,
                                   [message_id |-> id, reply_to |-> reply_to])
    /\ UNCHANGED <<beside_adapter, poll_pc, poll_user, poll_msg, responses>>

\* on_adapter_unloaded: the queue is drained and the cache cleared
AdapterUnloaded ==
    /\ AdapterFree
    /\ pending_responses' = <<>>
    /\ message_cache' = <<>>
    /\ UNCHANGED <<beside_adapter, poll_pc, poll_user, poll_msg, responses>>

\* GET /poll calls get_pending_responses(user_id): responses = []
PollCall(uid) ==
    /\ poll_pc = "idle"
    /\ poll_pc' = "loop"
    /\ poll_user' = uid
    /\ responses' = <<>>
    /\ UNCHANGED <<beside_adapter, pending_responses, message_cache, poll_msg>>

\* `while not self._pending_responses.empty()` holds:
\* msg = self._pending_responses.get_nowait()
PollGet ==
    /\ poll_pc = "loop"
    /\ pending_responses # <<>>
    /\ poll_msg' = Head(pending_responses)
    /\ pending_responses' = Tail(pending_responses)
    /\ poll_pc' = "got"
    /\ UNCHANGED <<beside_adapter, message_cache, poll_user, responses>>

\* the rest of the pass: msg is put back into the queue (continue) or
\* appended to responses
PollFilter ==
    /\ poll_pc = "got"
    /\ IF OtherUsers(poll_msg, poll_user, message_cache)
       THEN /\ pending_responses' = Append(pending_responses, poll_msg)
            /\ UNCHANGED responses
       ELSE /\ responses' = Append(responses, poll_msg)
            /\ UNCHANGED pending_responses
    /\ poll_pc' = "loop"
    /\ poll_msg' = NoMsg
    /\ UNCHANGED <<beside_adapter, message_cache, poll_user>>

\* the queue is empty: the while loop ends
PollExit ==
    /\ poll_pc = "loop"
    /\ pending_responses = <<>>
    /\ poll_pc' = "ret"
    /\ UNCHANGED <<beside_adapter, pending_responses, message_cache, poll_user, poll_msg, responses>>

\* return responses
PollReturn ==
    /\ poll_pc = "ret"
    /\ poll_pc' = "idle"
    /\ poll_user' = Missing
    /\ responses' = <<>>
    /\ UNCHANGED <<beside_adapter, pending_responses, message_cache, poll_msg>>

NextAdapter ==
    \/ \E u \in Users, id \in MsgIds : SendMessage(u, id)
    \/ \E id \in ReplyIds, r \in MsgIds \cup {Missing} : SendPlatformMessage(id, r)
    \/ AdapterUnloaded
    \/ \E uid \in Users \cup {Missing} : PollCall(uid)
    \/ PollGet
    \/ PollFilter
    \/ PollExit
    \/ PollReturn

\* a call of get_pending_responses, once started, keeps running: it never
\* waits for another coroutine
SpecAdapter ==
    /\ Init
    /\ [][NextAdapter]_vars
    /\ WF_vars(PollGet)
    /\ WF_vars(PollFilter)
    /\ WF_vars(PollExit)
    /\ WF_vars(PollReturn)

\* ------------------------------------------------- core config backups
\*
\* SpecBackup follows config/core.toml and the files config/backups/core_*.toml
\* through the endpoints that save the core configuration. A file is its
\* content and its modification time; shutil.copy2 copies both. The handlers
\* have no await between their file operations: each request is one step.

Contents == {"a", "b"}
\* all_backups[20:] in core_config_router._create_backup
KeepCore == 20
\* all_backups[10:] in initialization_router._create_backup
KeepWizard == 10
\* requests and clock ticks followed from a prepared directory
MaxCfgOps == 3
\* numbers of backups in the directories the runs start from
PreparedSizes == {0, KeepWizard - 1, KeepWizard, KeepCore - 1, KeepCore}

\* the content written by the i-th save of a prepared directory
PreparedContent(i) == IF i % 2 = 0 THEN "a" ELSE "b"

\* the directory after n saves made in n successive seconds: the i-th
\* backup is the copy of core.toml as the save before it wrote it
PreparedDir(n) ==
    {[name |-> i, content |-> PreparedContent(i - 1), mtime |-> i - 1] : i \in 1..n}

InitPrepared ==
    \E n \in PreparedSizes :
        /\ cfg_now = n + 1
        /\ cfg_stamp = n
        /\ core_toml = [content |-> PreparedContent(n), mtime |-> n]
        /\ backup_dir = PreparedDir(n)
        /\ restore_status = Missing
        /\ cfg_ops = 0

\* BACKUP_DIR / name exists
BackupExists(dir, name) == \E f \in dir : f.name = name
BackupFile(dir, name) == CHOOSE f \in dir : f.name = name

\* shutil.copy2(CONFIG_PATH, backup_file): a file of the same name (a backup
\* made in the same second) is overwritten
WithCopy(dir, core, now) ==
    {f \in dir : f.name # now}
        \cup {[name |-> now, content |-> core.content, mtime |-> core.mtime]}

\* sorted(..., key=st_mtime, reverse=True)[keep:] is unlinked: the files that
\* are left, for each order the sort can give to files of equal mtime
Pruned(files, keep) ==
    IF Cardinality(files) <= keep THEN {files}
    ELSE LET k == Cardinality(files) - keep
             Older(m) == {f \in files : f.mtime < m}
             Same(m) == {f \in files : f.mtime = m}
             edge == CHOOSE m \in {f.mtime : f \in files} :
                        /\ Cardinality(Older(m)) < k
                        /\ k <= Cardinality(Older(m)) + Cardinality(Same(m))
         IN  {files \ (Older(edge) \cup T) :
                 T \in {U \in SUBSET Same(edge) :
                           Cardinality(U) = k - Cardinality(Older(edge))}}

\* _create_backup: the directories it can leave
CreateBackup(dir, core, now, keep) == Pruned(WithCopy(dir, core, now), keep)

CfgOp == /\ cfg_ops < MaxCfgOps
         /\ cfg_ops' = cfg_ops + 1

\* a second passes
CfgTick ==
    /\ CfgOp
    /\ cfg_now' = cfg_now + 1
    /\ UNCHANGED <<beside_config, cfg_stamp, core_toml, backup_dir, restore_status>>

\* _create_backup() and CONFIG_PATH.write_text(...)
SaveWith(content, keep) ==
    /\ CfgOp
    /\ backup_dir' \in CreateBackup(backup_dir, core_toml, cfg_now, keep)
    /\ cfg_stamp' = cfg_stamp + 1
    /\ core_toml' = [content |-> content, mtime |-> cfg_stamp + 1]
    /\ UNCHANGED <<beside_config, cfg_now, restore_status>>

\* PUT /config and POST /config/raw
SaveConfig(content) == SaveWith(content, KeepCore)

\* the initialization wizard: _save_bot_config_to_toml
SaveBotConfig(content) == SaveWith(content, KeepWizard)

\* POST /config/restore/{backup_name}
RestoreBackup(name) ==
    /\ CfgOp
    /\ IF ~BackupExists(backup_dir, name)
       THEN /\ restore_status' = "404"
            /\ UNCHANGED <<core_toml, backup_dir>>
       ELSE /\ backup_dir' \in CreateBackup(backup_dir, core_toml, cfg_now, KeepCore)
            /\ IF BackupExists(backup_dir', name)
               THEN /\ core_toml' = [content |-> BackupFile(backup_dir', name).content,
                                     mtime |-> BackupFile(backup_dir', name).mtime]
                    /\ restore_status' = "200"
               ELSE \* shutil.copy2 raises FileNotFoundError
                    /\ restore_status' = "500"
                    /\ UNCHANGED core_toml
    /\ UNCHANGED <<beside_config, cfg_now, cfg_stamp>>

\* backup names a request can carry: the timestamps so far
BackupNames == 0..(KeepCore + 1 + MaxCfgOps)

NextBackup ==
    \/ CfgTick
    \/ \E c \in Contents : SaveConfig(c)
    \/ \E c \in Contents : SaveBotConfig(c)
    \/ \E name \in BackupNames : RestoreBackup(name)

InitBackup == InitRouters /\ InitAdapter /\ InitPrepared /\ InitRest

SpecBackup == InitBackup /\ [][NextBackup]_vars

\* ------------------------------------------- BaseJSONStorage.set_value
\*
\* SpecStorage follows the blob webui_settings through set_value calls made
\* by three coroutines. set_value awaits json_store.load and json_store.save:
\* other coroutines can run between the read and the write.

GitPaths == {"", "/usr/bin/git"}
KeyOf(t) == IF t = "complete" THEN "is_initialized" ELSE "git_path"
\* set_initialized(True), set_git_path(p)
ValuesOf(t) == IF t = "complete" THEN {"true"} ELSE GitPaths

\* data = await self.load_or_default(): a missing file gives {}
SetLoad(t, v) ==
    /\ set_pc[t] = "idle"
    /\ set_pc' = [set_pc EXCEPT ![t] = "save"]
    /\ set_val' = [set_val EXCEPT ![t] = v]
    /\ set_data' = [set_data EXCEPT ![t] = settings_file]
    /\ UNCHANGED <<beside_storage, settings_file>>

\* data[key] = value; await self.save(data): the whole blob is written.
\* complete_initialization is requested once, the git path any number of times
SetSave(t) ==
    /\ set_pc[t] = "save"
    /\ settings_file' = [set_data[t] EXCEPT ![KeyOf(t)] = set_val[t]]
    /\ set_pc' = [set_pc EXCEPT ![t] = IF t = "complete" THEN "done" ELSE "idle"]
    /\ set_val' = [set_val EXCEPT ![t] = Missing]
    /\ set_data' = [set_data EXCEPT ![t] = NoSettings]
    /\ UNCHANGED beside_storage

\* get_initialized(): get_value("is_initialized", False)
GetInitialized == settings_file["is_initialized"] = "true"

NextStorage ==
    \/ \E t \in Setters : \E v \in ValuesOf(t) : SetLoad(t, v)
    \/ \E t \in Setters : SetSave(t)

SpecStorage == Init /\ [][NextStorage]_vars

\* ------------------------------------------------------- POST /users
\*
\* SpecUsers follows the blob chatroom_users through create_user requests.
\* The snapshot a request writes is named after the request.

\* if await storage.user_exists(req.user_id): raise HTTPException(409)
CreateCheck(r, uid) ==
    /\ create_pc[r] = "idle"
    /\ create_user_id' = [create_user_id EXCEPT ![r] = uid]
    /\ create_pc' = [create_pc EXCEPT ![r] =
                        IF users_file[uid] # Missing THEN "409" ELSE "create"]
    /\ UNCHANGED <<beside_users, users_file, create_data>>

\* storage.create_user: data = await self.load_or_default({})
CreateLoad(r) ==
    /\ create_pc[r] = "create"
    /\ create_pc' = [create_pc EXCEPT ![r] = "save"]
    /\ create_data' = [create_data EXCEPT ![r] = users_file]
    /\ UNCHANGED <<beside_users, users_file, create_user_id>>

\* data[user_id] = user_data; await self.save(data); the request goes on to
\* answer with the merged user
CreateSave(r) ==
    /\ create_pc[r] = "save"
    /\ users_file' = [create_data[r] EXCEPT ![create_user_id[r]] = r]
    /\ create_pc' = [create_pc EXCEPT ![r] = "created"]
    /\ create_data' = [create_data EXCEPT ![r] = NoUsers]
    /\ UNCHANGED <<beside_users, create_user_id>>

NextUsers ==
    \/ \E r \in Creators, uid \in UserIds : CreateCheck(r, uid)
    \/ \E r \in Creators : CreateLoad(r)
    \/ \E r \in Creators : CreateSave(r)

SpecUsers == Init /\ [][NextUsers]_vars

\* ------------------------------------------------------------ properties

\* subscribers of stream T in the live-chat registry
Subs(T) == IF T \in DOMAIN active_connections THEN active_connections[T] ELSE {}

TypeOK ==
    /\ running \in Tasks \cup {NoTask}
    /\ DOMAIN active_connections \subseteq Topics
    /\ \A T \in DOMAIN active_connections : active_connections[T] \subseteq Conns
    /\ log_connections \subseteq LogConns
    /\ chat_lock \in ChatTasks \cup {NoTask}
    /\ log_lock \in LogTasks \cup {NoTask}

\* C1: broadcast_message and broadcast_log never raise to their caller,
\* whatever sends fail and whatever subscribe, unsubscribe and cleanup steps
\* run while the broadcast is suspended in a send.
C1_BroadcastNeverRaises ==
    \A b \in Bcasters \cup LogBcasters : pc[b] # "raised"

\* a broadcast with a failed send returns normally although every connection
\* of its copy unsubscribed during it (the stream's key was already gone
\* when the prune block ran)
C1_Witness ==
    \E b \in Bcasters :
        /\ pc[b] = "ret"
        /\ disconnected[b] # {}
        /\ \A c \in snap_subs[b] : stream_id[b] \in unsub_done[c]
        /\ stream_id[b] \notin DOMAIN active_connections

\* C2: no stream key of the live-chat registry maps to an empty set.
C2_NoEmptyTopic ==
    \A T \in DOMAIN active_connections : active_connections[T] # {}

\* the last subscriber of a stream has unsubscribed and the key is gone
C2_Witness ==
    \E c \in Conns, T \in Topics :
        /\ pc[c] = "recv"
        /\ T \in unsub_done[c]
        /\ T \notin DOMAIN active_connections

\* C3: a broadcast to T that starts after unsubscribe(T, C) has completed
\* (and before C subscribes to T again) makes no send to C.
C3_NoSendAfterUnsubscribe ==
    \A b \in Bcasters : \A c \in barred[b] : sent[b][c] = <<>>

\* a broadcast that found subscribers returns, one connection having
\* unsubscribed from the stream before it started
C3_Witness ==
    \E b \in Bcasters :
        /\ pc[b] = "ret"
        /\ snap_subs[b] # {}
        /\ barred[b] # {}

\* C4: one call of broadcast_message hands {"type": "message", "data":
\* payload} to send_json exactly once for each connection of the stream's
\* set as it was when the copy was taken, and to no other connection.
C4_OneSendPerSnapshotMember ==
    \A b \in Bcasters :
        /\ \A c \in Conns :
              /\ Len(sent[b][c]) <= 1
              /\ sent[b][c] # <<>> =>
                    /\ c \in snap_subs[b]
                    /\ sent[b][c][1] = [type |-> "message",
                                        data |-> [stream_id |-> stream_id[b]]]
        /\ \A c \in AllConns \ Conns : sent[b][c] = <<>>
        /\ pc[b] = "ret" => \A c \in snap_subs[b] : Len(sent[b][c]) = 1

\* a call returns after a failed send to the only connection of its copy,
\* while a connection that subscribed to the stream after the copy got nothing
C4_Witness ==
    \E b \in Bcasters :
        /\ pc[b] = "ret"
        /\ Cardinality(snap_subs[b]) = 1
        /\ disconnected[b] = snap_subs[b]
        /\ \E d \in Conns \ snap_subs[b] :
              d \in Subs(stream_id[b]) /\ sent[b][d] = <<>>

\* C5: when a broadcast returns, no connection whose send raised in it is
\* still in the stream's set (live chat) or in the log connection set; the
\* stream's key remains only if a connection other than the failed ones is
\* subscribed; and a broadcast that finds no key sends nothing.
C5_FailedSendPruned ==
    /\ \A b \in Bcasters : pc[b] = "ret" =>
          /\ disconnected[b] \cap Subs(stream_id[b]) = {}
          /\ stream_id[b] \in DOMAIN active_connections => Subs(stream_id[b]) # {}
          /\ snap_subs[b] = {} => sent[b] = NothingSent
    /\ \A b \in LogBcasters : pc[b] = "ret" =>
          disconnected[b] \cap log_connections = {}

\* the only subscriber's send raised: at return the key is removed
C5_Witness ==
    \E b \in Bcasters :
        /\ pc[b] = "ret"
        /\ disconnected[b] # {}
        /\ disconnected[b] = snap_subs[b]
        /\ stream_id[b] \notin DOMAIN active_connections

\* C6: a send failure never ends the loop: when a broadcast in which a send
\* raised returns, a send was attempted to every connection of its copy.
C6_FailureIsolation ==
    \A b \in Bcasters \cup LogBcasters :
        (pc[b] = "ret" /\ disconnected[b] # {}) =>
            \A c2 \in snap_subs[b] : sent[b][c2] # <<>>

\* both connections of a copy were sent to, one send raised and one did not
C6_Witness ==
    \E b \in Bcasters :
        /\ pc[b] = "ret"
        /\ Cardinality(snap_subs[b]) = 2
        /\ Cardinality(disconnected[b]) = 1
        /\ \A c \in snap_subs[b] : sent[b][c] # <<>>

CleanupPcs == {"clean_loop", "clean_acq", "clean_cs"}
LogCleanupPcs == {"rm_acq", "rm_cs"}

C7_CleanedUp ==
    /\ \A c \in Conns : pc[c] = "done" => \A T \in Topics : c \notin Subs(T)
    /\ \A l \in LogConns : pc[l] = "done" => l \notin log_connections
    /\ \A b \in Bcasters \cup LogBcasters : pc[b] # "raised"

C7_CleanupFrame ==
    /\ \A c \in Conns : pc[c] \in CleanupPcs =>
          \A d \in Conns \ {c} : \A T \in Topics : (d \in Subs(T))' = (d \in Subs(T))
    /\ \A l \in LogConns : pc[l] \in LogCleanupPcs =>
          log_connections' \ {l} = log_connections \ {l}

\* C7: once a handler's cleanup has finished its connection is in no stream's
\* set and not in the log connection set; the cleanup changes no other
\* connection's membership and no broadcast raises because of it.
C7_CleanupRemovesConnection == [](C7_CleanedUp) /\ [][C7_CleanupFrame]_vars

\* a handler that had subscribed has finished its cleanup while another
\* connection is still subscribed to the same stream
C7_Witness ==
    \E c \in Conns, T \in Topics :
        /\ pc[c] = "done"
        /\ T \in subscribed_streams[c]
        /\ Subs(T) # {}

ChatCsPcs == {"sub_cs", "unsub_cs", "clean_cs", "b_cs", "p_cs"}
LogCsPcs == {"add_cs", "rm_cs", "b_cs", "p_cs", "s_cs"}

C8_MutualExclusion ==
    /\ \A t \in ChatTasks : pc[t] \in ChatCsPcs => chat_lock = t
    /\ \A t \in LogTasks : pc[t] \in LogCsPcs => log_lock = t

C8_MutationUnderLock ==
    /\ active_connections' # active_connections =>
          (chat_lock # NoTask /\ chat_lock = running)
    /\ log_connections' # log_connections =>
          (log_lock # NoTask /\ log_lock = running)

\* C8: every change of the live-chat dict and of the log connection set is
\* made by the task that holds the router's lock, and a task inside a
\* locked block is the one holder of that lock.
C8_LockedMutation == [](C8_MutualExclusion) /\ [][C8_MutationUnderLock]_vars

\* a broadcast holds the lock and is about to prune a failed connection
C8_Witness ==
    \E b \in Bcasters :
        /\ pc[b] = "p_cs"
        /\ chat_lock = b
        /\ disconnected[b] \cap Subs(stream_id[b]) # {}

\* positions where a task awaits a network operation
NetPcs == {"recv", "send_text_pong", "send_json_pong", "send_subscribed",
           "b_send", "s_close"}

\* C9: no task awaits a network operation while it holds a registry lock;
\* whenever the loop is free for another task, both locks are free.
C9_NoIOUnderLock ==
    /\ \A t \in Tasks : pc[t] \in NetPcs => (chat_lock # t /\ log_lock # t)
    /\ running = NoTask => (chat_lock = NoTask /\ log_lock = NoTask)

\* a handler has taken the lock to subscribe while a broadcast send is in flight
C9_Witness ==
    \E b \in Bcasters, c \in Conns :
        /\ pc[b] = "b_send"
        /\ pc[c] = "sub_cs"
        /\ chat_lock = c

\* the texts that are no recognized control message: invalid JSON, JSON that
\* is no object, an object with an unknown or missing type, subscribe or
\* unsubscribe without a stream_id
Unrecognized ==
    {t \in Texts :
        \/ t[1] \in {"invalid_json"} \cup NonObjectKinds
        \/ /\ t[1] = "json_object"
           /\ \/ t[2] \in {"other", Missing}
              \/ t[2] \in {"subscribe", "unsubscribe"} /\ ~Truthy(t[3])}

\* C10: an unrecognized text is ignored: the handler is back at
\* receive_text with no reply sent, and the registry and the handler's
\* subscribed set are unchanged.
C10_UnrecognizedIgnored ==
    [][\A c \in Conns : \A t \in Unrecognized :
          HReceive(c, t) =>
              /\ pc'[c] = "recv"
              /\ active_connections' = active_connections
              /\ subscribed_streams' = subscribed_streams]_vars

\* two calls (chat: of the same stream) are in progress, b1 the earlier one
ChatOverlap == pc[RaceFirst] # "idle" /\ pc[RaceSecond] # "idle"
LogOverlap(b1, b2) ==
    /\ LogRank(b1) < LogRank(b2)
    /\ pc[b1] # "idle"
    /\ pc[b2] # "idle"

\* C11 as claimed: when two broadcasts overlap, a connection of both copies
\* that is still subscribed has been handed the later call's payload only
\* after the earlier call's payload (writes reach the client in the order in
\* which send_json was called).
C11_DeliveryFollowsCallOrder ==
    /\ \A c \in Conns :
          (/\ ChatOverlap
           /\ c \in snap_subs[RaceFirst] \cap snap_subs[RaceSecond]
           /\ c \in Subs(RaceTopic)
           /\ sent[RaceSecond][c] # <<>>) => sent[RaceFirst][c] # <<>>
    /\ \A b1, b2 \in LogBcasters : \A l \in LogConns :
          (/\ LogOverlap(b1, b2)
           /\ l \in snap_subs[b1] \cap snap_subs[b2]
           /\ l \in log_connections
           /\ sent[b2][l] # <<>>) => sent[b1][l] # <<>>

\* C11 as amended: a later call makes no send before the earlier call has
\* made its first send, so the order of the calls is the order of delivery
\* for the connection the earlier call sends to first, in particular for the
\* only connection of its copy.
C11_FirstSendFollowsCallOrder ==
    /\ ChatOverlap =>
          /\ sent[RaceSecond] # NothingSent => sent[RaceFirst] # NothingSent
          /\ \A c \in Conns :
                (snap_subs[RaceFirst] = {c} /\ sent[RaceSecond][c] # <<>>)
                    => sent[RaceFirst][c] # <<>>
    /\ \A b1, b2 \in LogBcasters : LogOverlap(b1, b2) =>
          /\ sent[b2] # NothingSent => sent[b1] # NothingSent
          /\ \A l \in LogConns :
                (snap_subs[b1] = {l} /\ sent[b2][l] # <<>>) => sent[b1][l] # <<>>

\* the later call has sent to the only connection of the earlier call's
\* copy while the earlier call is still suspended in its send to it
C11_Witness ==
    \E c \in Conns :
        /\ pc[RaceFirst] = "b_send"
        /\ snap_subs[RaceFirst] = {c}
        /\ cur_ws[RaceFirst] = c
        /\ sent[RaceSecond][c] # <<>>

\* shutdown has taken its copy and cleared the set
ShutdownCleared == pc[ShutdownTask] \in {"s_loop", "s_close", "done"}

\* what holds of shutdown's close loop
C12_CloseLoop ==
    /\ pc[ShutdownTask] = "s_close" => log_lock # ShutdownTask
    /\ ShutdownCleared => log_connections \cap snap_subs[ShutdownTask] = {}
    /\ pc[ShutdownTask] = "done" =>
          \A ws \in snap_subs[ShutdownTask] : sent[ShutdownTask][ws] = <<CloseFrame>>

\* the copy and the clear are one critical section
C12_OneCriticalSection ==
    (pc[ShutdownTask] = "s_cs" /\ pc'[ShutdownTask] # "s_cs") =>
        /\ log_lock = ShutdownTask
        /\ snap_subs'[ShutdownTask] = log_connections
        /\ log_connections' = {}
        /\ log_lock' = NoTask
        /\ pc'[ShutdownTask] = "s_loop"

\* C12 as claimed: shutdown closes every connection of its copy outside the
\* lock, whatever closes fail, and when it has returned the connection set
\* is empty.
C12_EmptyAfterShutdown ==
    /\ C12_CloseLoop
    /\ pc[ShutdownTask] = "done" => log_connections = {}

\* C12 as amended: shutdown copies and clears the set in one critical
\* section and then attempts a close on every connection of the copy outside
\* the lock, whatever closes fail; when it has returned the set holds no
\* connection of the copy (it holds the connections accepted after the copy
\* was taken, which shutdown neither closes nor removes).
C12_ShutdownClosesSnapshot == [](C12_CloseLoop) /\ [][C12_OneCriticalSection]_vars

\* shutdown has returned after closing its copy while a connection accepted
\* during the close loop is in the set
C12_Witness ==
    /\ pc[ShutdownTask] = "done"
    /\ snap_subs[ShutdownTask] # {}
    /\ \A ws \in snap_subs[ShutdownTask] : sent[ShutdownTask][ws] = <<CloseFrame>>
    /\ log_connections # {}

\* C13: when the live-chat router's shutdown has returned, the stream ->
\* connections dict is empty (every subscribed connection having been closed).
C13_RegistryTornDown ==
    pc[ChatShutdownTask] = "done" => active_connections = EmptyDict

\* C14: execute returns to the event producer without waiting for a
\* WebSocket send: no producer is still inside execute while a send_json of
\* the broadcast it triggered is awaited.
C14_FireAndForget ==
    \A b \in Bcasters : pc[b] = "b_send" => ExecuteReturned(b)

C15_AckAndCopy ==
    \* the acknowledgement in flight is for a stream of the handler's set
    /\ \A c \in Conns : pc[c] = "send_subscribed" =>
          stream_id[c] \in subscribed_streams[c]
    \* no other task runs between the start of a broadcast and its copy
    /\ \A b \in Bcasters : pc[b] \in {"b_acq", "b_cs"} => running = b
    \* a broadcast has made a send to every connection of its copy
    /\ \A b \in Bcasters : pc[b] = "ret" =>
          \A c \in snap_subs[b] : sent[b][c] # <<>>

C15_SubscribedUntilLeft ==
    \* when the acknowledgement is sent the connection is in the stream's set
    /\ \A c \in Conns : (pc[c] = "sub_cs" /\ pc'[c] # "sub_cs") =>
          /\ pc'[c] = "send_subscribed"
          /\ stream_id[c] \in DOMAIN active_connections'
          /\ c \in active_connections'[stream_id[c]]
    \* it leaves the set only by its own unsubscribe or cleanup, or by the
    \* prune of a broadcast whose send to it failed
    /\ \A c \in Conns : \A T \in Topics :
          (T \in subscribed_streams[c] /\ c \in Subs(T) /\ ~(c \in Subs(T))') =>
              \/ running = c
              \/ \E b \in Bcasters :
                    running = b /\ pc[b] = "p_cs" /\ c \in disconnected[b]
    \* a broadcast to a stream with subscribers does not return early, and
    \* its copy is the stream's set
    /\ \A b \in Bcasters :
          /\ (pc[b] = "idle" /\ pc'[b] # "idle" /\ Subs(stream_id'[b]) # {}) =>
                pc'[b] = "b_acq"
          /\ (pc[b] = "b_cs" /\ pc'[b] # "b_cs") =>
                (pc'[b] = "b_loop" /\ pending'[b] = Subs(stream_id[b]))

\* C15: the connection is in the stream's set before the "subscribed"
\* acknowledgement is sent and stays in it until it unsubscribes, cleans up or
\* is pruned after a failed send; a broadcast to the stream copies the set
\* as it is when the call starts and makes a send to every connection of
\* the copy.
C15_SubscribedBeforeAck == [](C15_AckAndCopy) /\ [][C15_SubscribedUntilLeft]_vars

\* a broadcast has made a send to a connection that holds an acknowledged
\* subscription to the stream
C15_Witness ==
    \E b \in Bcasters, c \in Conns :
        /\ pc[b] = "ret"
        /\ sent[b][c] # <<>>
        /\ pc[c] = "recv"
        /\ stream_id[b] \in subscribed_streams[c]
        /\ c \in Subs(stream_id[b])

\* from every reachable registry: subscribing twice gives the registry that
\* subscribing once gives, one unsubscribe then removes the connection, and
\* no broadcast sends to a connection more than once
C16_TwiceIsOnce ==
    /\ \A c \in Conns : \A T \in Topics :
          LET once == SubscribeBody(active_connections, c, T)
              twice == SubscribeBody(once, c, T)
              left == UnsubscribeBody(twice, c, T)
          IN  /\ twice = once
              /\ c \in once[T]
              /\ T \in DOMAIN left => c \notin left[T]
              /\ left = UnsubscribeBody(active_connections, c, T)
    /\ \A b \in Bcasters : \A c \in Conns : Len(sent[b][c]) <= 1

\* a handler that subscribes to a stream it is already in changes nothing
C16_RepeatedSubscribe ==
    \A c \in Conns :
        (pc[c] = "sub_cs" /\ pc'[c] # "sub_cs" /\ c \in Subs(stream_id[c])) =>
            /\ active_connections' = active_connections
            /\ stream_id[c] \in subscribed_streams[c] =>
                  subscribed_streams' = subscribed_streams

\* C16: subscribe is idempotent: a second subscribe(T, C) leaves the registry
\* as the first one left it, one unsubscribe(T, C) removes C completely, and a
\* broadcast to T sends to C once.
C16_SubscribeIdempotent == [](C16_TwiceIsOnce) /\ [][C16_RepeatedSubscribe]_vars

\* a handler holds the lock for a subscribe to a stream it is already
\* subscribed to, together with another connection
C16_Witness ==
    \E c \in Conns :
        /\ pc[c] = "sub_cs"
        /\ stream_id[c] \in subscribed_streams[c]
        /\ c \in Subs(stream_id[c])
        /\ Cardinality(Subs(stream_id[c])) = 2

\* the call of b found nothing to send to
NoSubscribers(b) ==
    IF b \in Bcasters
    THEN ~Truthy(stream_id[b]) \/ stream_id[b] \notin DOMAIN active_connections
    ELSE log_connections = {}

C17_NothingSent ==
    \A b \in Bcasters \cup LogBcasters :
        /\ pc[b] # "raised"
        /\ (pc[b] \in {"b_acq", "b_cs"} => running = b)
        /\ (pc[b] = "ret" /\ snap_subs[b] = {}) => sent[b] = NothingSent

C17_ReturnsAtOnce ==
    \A b \in Bcasters \cup LogBcasters :
        \* a call that finds no subscribers goes straight to its return
        /\ (pc[b] = "idle" /\ pc'[b] # "idle" /\ NoSubscribers(b)') =>
              /\ pc'[b] = "ret"
              /\ active_connections' = active_connections
              /\ log_connections' = log_connections
              /\ sent'[b] = NothingSent
        \* and returns without having changed the registry
        /\ (pc[b] = "ret" /\ pc'[b] # "ret" /\ snap_subs[b] = {}) =>
              /\ pc'[b] = "idle"
              /\ active_connections' = active_connections
              /\ log_connections' = log_connections

\* C17: a broadcast for a stream without subscribers, or with a missing or
\* empty stream_id (for the log router: with no connection), sends nothing,
\* leaves the registry as it is, creating no entry, and raises nothing.
C17_BroadcastNoOp == [](C17_NothingSent) /\ [][C17_ReturnsAtOnce]_vars

\* a broadcast for a stream nobody is subscribed to is about to return while
\* another stream has subscribers
C17_Witness ==
    \E b \in Bcasters :
        /\ pc[b] = "ret"
        /\ Truthy(stream_id[b])
        /\ snap_subs[b] = {}
        /\ stream_id[b] \notin DOMAIN active_connections
        /\ active_connections # EmptyDict

\* positions at which a handler is inside _unsubscribe_stream, under the lock
UnsubCsPcs == {"unsub_cs", "clean_cs"}

\* C18: an unsubscribe of a connection that is not in the stream's set
\* (or of a stream that has no key) leaves the registry exactly as it
\* was; every unsubscribe leaves the other connections of the stream and all
\* other streams as they were.
C18_UnsubscribeFrame ==
    [][\A c \in Conns : \A T \in Topics :
          (pc[c] \in UnsubCsPcs /\ pc'[c] \notin UnsubCsPcs /\ stream_id[c] = T) =>
              /\ c \notin Subs(T) => active_connections' = active_connections
              /\ Subs(T)' = Subs(T) \ {c}
              /\ \A U \in Topics \ {T} :
                    /\ Subs(U)' = Subs(U)
                    /\ (U \in DOMAIN active_connections') = (U \in DOMAIN active_connections)
       ]_vars

\* a handler holds the lock for an unsubscribe from a stream whose set it is
\* not in, while another connection is subscribed to that stream
C18_Witness ==
    \E c \in Conns :
        /\ pc[c] = "unsub_cs"
        /\ stream_id[c] \in DOMAIN active_connections
        /\ c \notin active_connections[stream_id[c]]

\* the two heartbeat texts of the live-chat protocol
TextPing == <<"ping", Missing, Missing>>
JsonPing == <<"json_object", "ping", Missing>>

\* the read loop answers each heartbeat in kind, and a handler that is
\* sending a pong holds no lock
C19_AnsweredInKind ==
    /\ Dispatch(TextPing) = "send_text_pong"
    /\ Dispatch(JsonPing) = "send_json_pong"
    /\ \A c \in Conns : pc[c] \in {"send_text_pong", "send_json_pong"} => chat_lock # c

C20_PollTerminates == (poll_pc # "idle") ~> (poll_pc = "idle")

\* a reply of another user than the polling one waits in the queue
OthersReplyQueued ==
    \E i \in 1..Len(pending_responses) :
        OtherUsers(pending_responses[i], poll_user, message_cache)

\* C21: a call of get_pending_responses with a user_id, made while a reply
\* that belongs to another user is queued, returns without that reply, and
\* the reply is still in the queue when it returns.
C21_OthersRepliesLeftQueued ==
    (poll_pc = "loop" /\ OthersReplyQueued)
        ~> (poll_pc = "ret" /\ OthersReplyQueued
              /\ \A i \in 1..Len(responses) :
                    ~OtherUsers(responses[i], poll_user, message_cache))

\* the running call has taken the reply id out of the queue into `responses`
TakenByPoll(id) == \E i \in 1..Len(responses) : responses[i].message_id = id

\* C22: a reply that a poll has taken out of the queue is returned by that
\* poll (no enqueued reply is dropped: it is in the queue or it is returned).
C22_TakenRepliesReturned ==
    \A id \in ReplyIds : TakenByPoll(id) ~> (poll_pc = "ret" /\ TakenByPoll(id))

\* C23: a restore of a backup that exists when the request starts ends with
\* core.toml holding that backup's content and with the content core.toml had
\* before kept in a backup, however many backups there are.
C23_RestoreInstallsBackup ==
    [][\A name \in BackupNames :
          (BackupExists(backup_dir, name) /\ RestoreBackup(name)) =>
              /\ restore_status' = "200"
              /\ core_toml'.content = BackupFile(backup_dir, name).content
              /\ \E f \in backup_dir' : f.content = core_toml.content]_vars

\* a request that saves the core configuration: it calls _create_backup
CoreSave ==
    \/ \E c \in Contents : SaveConfig(c)
    \/ \E c \in Contents : SaveBotConfig(c)
    \/ \E name \in BackupNames : BackupExists(backup_dir, name) /\ RestoreBackup(name)

\* the backups of dir made after the backup called name
NewerBackups(dir, name) == {g \in dir : g.name > name}

\* C29: after every save of the core configuration there are at most 20 core
\* backups, the backup just made is among them, and a backup that the save
\* deleted has 20 newer ones.
C29_NewestTwentyKept ==
    [][CoreSave =>
          /\ Cardinality(backup_dir') <= KeepCore
          /\ BackupExists(backup_dir', cfg_now)
          /\ \A f \in backup_dir :
                ~BackupExists(backup_dir', f.name) =>
                    Cardinality(NewerBackups(backup_dir', f.name)) >= KeepCore]_vars

\* the same for the saves of the core config router alone
CoreRouterSavesKeepNewest ==
    [][((\E c \in Contents : SaveConfig(c))
          \/ \E name \in BackupNames : BackupExists(backup_dir, name) /\ RestoreBackup(name)) =>
          /\ BackupExists(backup_dir', cfg_now)
          /\ \A f \in backup_dir :
                ~BackupExists(backup_dir', f.name) =>
                    Cardinality(NewerBackups(backup_dir', f.name)) >= KeepCore]_vars

\* C24: a set_value on one key does not undo a completed write to another
\* key: once set_initialized(True) has returned, get_initialized is True,
\* whatever set_git_path calls overlap with it.
C24_InitializedStays == set_pc["complete"] = "done" => GetInitialized

\* the requests that have created the user uid
CreatedBy(uid) == {r \in Creators : create_pc[r] = "created" /\ create_user_id[r] = uid}

\* C25: of the POST /users requests that carry the same user_id at most one
\* creates the user, and the snapshot of a user that exists is not changed by
\* a create request.
C25_OneCreatorPerUser ==
    /\ [](\A uid \in UserIds : Cardinality(CreatedBy(uid)) <= 1)
    /\ [][\A uid \in UserIds :
             users_file[uid] # Missing => users_file'[uid] = users_file[uid]]_vars

\* the step of task t that leaves the block at position `at`
Leaves(t, at) == pc[t] = at /\ pc'[t] # at

C27_RegistryWithinLocalSet ==
    \A c \in Conns : running # c =>
        \A T \in Topics : c \in Subs(T) => T \in subscribed_streams[c]

\* a handler waits in receive_text with its connection in a stream's set
C27_Witness ==
    \E c \in Conns : \E T \in Topics :
        /\ running # c
        /\ pc[c] = "recv"
        /\ c \in Subs(T)

\* the connection's api_key is not in the configured list (the list is empty,
\* cannot be read, or does not hold the key)
KeyNotConfigured(c) == ~api_keys.readable \/ conn_key[c] \notin api_keys.keys

\* C28: a connection whose api_key is not in the configured list is never
\* accepted, is never in a stream's set or in the log connection set, and no
\* broadcast sends to it.
C28_UnlistedKeyShutOut ==
    \A c \in AllConns : KeyNotConfigured(c) =>
        /\ pc[c] \in {"init", "rejected"}
        /\ \A T \in Topics : c \notin Subs(T)
        /\ c \notin log_connections
        /\ \A b \in Loopers : sent[b][c] = <<>>

\* a connection with an unlisted key has been closed, and a broadcast has
\* sent to another connection
C28_Witness ==
    \E c, d \in AllConns :
        /\ KeyNotConfigured(c)
        /\ pc[c] = "rejected"
        /\ \E b \in Loopers : sent[b][d] # <<>>

====
